---- MODULE Spec2Model ----
(***************************************************************************)
(* Model of the incremental processing core of Track_UA_Air_Attacks:       *)
(* the CSV record store, the OpenAI analyzer client, the feed passes of    *)
(* the two run modes, the phase-2 enrichment scheduler and the             *)
(* orchestrator (src/src/telegram_scraper.py, src/src/openai_processor.py, *)
(* src/main.py, src/config.py).                                            *)
(*                                                                         *)
(* Abstractions.  A CSV data line is a record of the five columns the core *)
(* reads back (message_id, message_text and the three openai_* columns);   *)
(* the other twelve columns are written once and never inspected.  The     *)
(* file is a header flag plus a sequence of data lines: a process that     *)
(* dies inside a rewrite leaves whole lines (line granularity).  Message   *)
(* texts are sequences of one-character strings.                           *)
(***************************************************************************)
EXTENDS Integers, Sequences, FiniteSets, TLC

\* ------------------------------------------------------------------ bounds
\* ids of the messages of the channel
MaxMsg == 5
\* messages one feed pass yields at most (limit= of iter_messages / channel end)
MaxFeed == 3
\* cap on the number of data lines of the store file
MaxRows == 3
\* Config.MAX_CONCURRENT_REQUESTS, a configurable setting (default 5)
MAX_CONCURRENT_REQUESTS == 2
\* operations applied directly: ids and number of lines of the stored file
MaxStoreId == 2
MaxLines == 2

\* ------------------------------------------------------- program constants
RETRY_MAX_TRIES == 3
HTTP_OK == 200
HTTP_RATE_LIMIT == 429
\* statuses of the final else branch of process_message
OtherStatuses == {500}

None == "None"
NULL_MESSAGE == "Failed to process or returned NULL"
PARSED_OBJECT == "object"
ANALYSIS_JSON == "{json}"
SEARCH_PHRASE == <<"U", "n">>

MsgIds == 1..MaxMsg

\* ------------------------------------------------------------ source feed
\* text of channel message m: every fourth id lacks the phrase (wrong case),
\* every fifth has no text, every sixth has the characters of the phrase
\* but not adjacent, the others carry the phrase at offset 0 or 1
MessageText(m) ==
    IF m % 6 = 0 THEN <<"U", "x", "n">>
    ELSE IF m % 5 = 0 THEN <<>>
    ELSE IF m % 4 = 0 THEN <<"u", "n", "x">>
    ELSE IF m % 2 = 0 THEN <<"x", "U", "n">>
    ELSE <<"U", "n", "x">>

\* Python's  sub in s  for sequences of characters
Contains(s, sub) ==
    \E i \in 0..(Len(s) - Len(sub)) :
        \A k \in 1..Len(sub) : s[i + k] = sub[k]

\* (variant: every message of the feed qualifies)
Qualifies_All(m) == TRUE
\* (variant: any message with a text qualifies)
Qualifies_AnyText(m) == MessageText(m) # <<>>
\* if message.text and search_phrase in message.text
Qualifies(m) ==
    /\ MessageText(m) # <<>>
    /\ Contains(MessageText(m), SEARCH_PHRASE)

\* ------------------------------------------------------------ record store
\* csv.DictWriter cell of a str-or-None value / of a bool value
CsvStr(v) == IF v = None THEN "" ELSE v
CsvBool(b) == IF b THEN "True" ELSE "False"
\* str.lower() on the values the openai_processed column can hold
Lower(s) == IF s = "True" THEN "true" ELSE IF s = "False" THEN "false" ELSE s

\* str() of a message id and int() of a message_id cell, on the decimal
\* texts of the ids in use; int() raises ValueError on any other text
Decimal == <<"1", "2", "3", "4", "5", "6", "7", "8", "9">>
str(n) == Decimal[n]
IsDecimal(s) == \E n \in DOMAIN Decimal : Decimal[n] = s
int(s) == CHOOSE n \in DOMAIN Decimal : Decimal[n] = s

\* the data line csv.DictWriter.writerow produces for message_data
CsvRow(md) ==
    [message_id       |-> str(md.message_id),
     message_text     |-> md.message_text,
     openai_analysis  |-> CsvStr(md.openai_analysis),
     openai_processed |-> CsvBool(md.openai_processed),
     openai_error     |-> CsvStr(md.openai_error)]

\* (variant: a new message is built as already processed)
NewMessageData_Processed(m) ==
    [message_id       |-> m,
     message_text     |-> MessageText(m),
     openai_analysis  |-> None,
     openai_processed |-> TRUE,
     openai_error     |-> None]
\* message_data as built by both feed passes for a new message
NewMessageData(m) ==
    [message_id       |-> m,
     message_text     |-> MessageText(m),
     openai_analysis  |-> None,
     openai_processed |-> FALSE,
     openai_error     |-> None]

\* open(filename, 'r') without newline='': a carriage return inside a
\* quoted field is read as a line feed
universal_newlines(t) ==
    [i \in DOMAIN t |-> IF t[i] = "\r" THEN "\n" ELSE t[i]]
\* a data line as the csv reader hands it over
ReadLine(r) == [r EXCEPT !.message_text = universal_newlines(@)]
ReadLines(rs) == [i \in DOMAIN rs |-> ReadLine(rs[i])]

\* rows csv.DictReader yields with a message_id key: with the schema header
\* every data line; without it the first line is taken as the field names
\* and no later line has a 'message_id' column
ReadableRows(hdr, rows) == IF hdr THEN ReadLines(rows) ELSE <<>>

\* if row.get('message_id')  and  int(row['message_id'])  does not raise
ValidId(cell) == cell # "" /\ IsDecimal(cell)

RECURSIVE IdsOf(_)
IdsOf(rs) ==
    IF rs = <<>> THEN {}
    ELSE IF ValidId(Head(rs).message_id)
         THEN {int(Head(rs).message_id)} \cup IdsOf(Tail(rs))
         ELSE IdsOf(Tail(rs))

RECURSIVE Unprocessed(_)
Unprocessed(rs) ==
    IF rs = <<>> THEN <<>>
    ELSE IF ValidId(Head(rs).message_id)
            /\ Lower(Head(rs).openai_processed) \notin {"true", "1", "yes"}
         THEN <<[message_id       |-> int(Head(rs).message_id),
                 message_text     |-> Head(rs).message_text,
                 openai_analysis  |-> None,
                 openai_processed |-> FALSE,
                 openai_error     |-> None]>> \o Unprocessed(Tail(rs))
         ELSE Unprocessed(Tail(rs))

\* (variant: the first row with an unusable message_id ends the loading)
load_existing_csv_StopAtBad(ex, hdr, rows) ==
    LET good == CHOOSE k \in 0..Len(rows) :
                    /\ \A i \in 1..k : ValidId(rows[i].message_id)
                    /\ k < Len(rows) => ~ValidId(rows[k + 1].message_id)
        rs == ReadableRows(hdr, SubSeq(rows, 1, good))
    IN IF ex
       THEN [processed_ids |-> IdsOf(rs),
             unprocessed_messages |-> Unprocessed(rs)]
       ELSE [processed_ids |-> {}, unprocessed_messages |-> <<>>]
\* _load_existing_csv: (processed_ids, unprocessed_messages)
load_existing_csv(ex, hdr, rows) ==
    IF ex
    THEN [processed_ids        |-> IdsOf(ReadableRows(hdr, rows)),
          unprocessed_messages |-> Unprocessed(ReadableRows(hdr, rows))]
    ELSE [processed_ids |-> {}, unprocessed_messages |-> <<>>]

\* (variant: the file is opened for writing whether or not it exists)
initialize_csv_Always(ex, hdr, rs) ==
    [exists |-> TRUE, header |-> TRUE, rows |-> <<>>]
\* _initialize_csv: the file afterwards
initialize_csv(ex, hdr, rs) ==
    IF ~ex
    THEN [exists |-> TRUE, header |-> TRUE, rows |-> <<>>]
    ELSE [exists |-> ex, header |-> hdr, rows |-> rs]

\* the rows of _update_message_in_csv after its patch loop: the first row
\* whose message_id matches takes every value of updated_message
RECURSIVE PatchRows(_, _)
PatchRows(rs, md) ==
    IF rs = <<>> THEN <<>>
    ELSE IF Head(rs).message_id = str(md.message_id)
         THEN <<CsvRow(md)>> \o Tail(rs)
         ELSE <<Head(rs)>> \o PatchRows(Tail(rs), md)

\* csv.DictReader on a file without the schema header takes the cells of
\* the first line as field names; columns whose names are equal share one
\* dictionary key, so on writing back each gets the cell of the last of them
StrCols == <<"message_id", "openai_analysis", "openai_processed",
             "openai_error">>
LastSameName(first, f) ==
    LET same == {d \in DOMAIN StrCols : first[StrCols[d]] = first[f]}
    IN StrCols[CHOOSE d \in same : \A e \in same : e <= d]
Collapse(first, r) ==
    [f \in DOMAIN r |->
        IF f = "message_text" THEN r[f] ELSE r[LastSameName(first, f)]]

\* the data lines _update_message_in_csv writes back: read, patched (no row
\* has a 'message_id' key when the header is missing), written
rewritten(hdr, rs, md) ==
    IF hdr THEN PatchRows(ReadLines(rs), md)
    ELSE IF rs = <<>> THEN <<>>
    ELSE <<ReadLine(Head(rs))>> \o
         [i \in 1..(Len(rs) - 1) |-> Collapse(Head(rs), ReadLine(rs[i + 1]))]

LOG_UPDATED == "Updated message in CSV"
LOG_UPDATE_ERROR == "Error updating message in CSV"

\* _update_message_in_csv run to its end: the file and the log afterwards.
\* A missing file raises in open(filename, 'r'), an empty file in
\* writeheader (fieldnames is None); both end in  except Exception
update_message_in_csv(ex, hdr, rs, md) ==
    IF ~ex \/ (~hdr /\ rs = <<>>)
    THEN [header |-> hdr, rows |-> rs, log |-> {LOG_UPDATE_ERROR}]
    ELSE [header |-> hdr, rows |-> rewritten(hdr, rs, md),
          log |-> {LOG_UPDATED}]

\* what a rewrite that is cut short can leave in the file: nothing at all
\* (open(filename, 'w') has truncated, no buffer flushed), or the header and
\* the first k of the lines being written
Damage(hdr, lines) ==
    {[header |-> FALSE, rows |-> <<>>]} \cup
    {[header |-> hdr, rows |-> SubSeq(lines, 1, k)] : k \in 0..Len(lines)}

\* --------------------------------------------------------- analyzer client
\* how a call ends; object: the text of a parsed JSON object, blanks removed
Return(v) == [kind |-> "return", value |-> v, exc |-> "", object |-> <<>>]
Raise(e) == [kind |-> "raise", value |-> None, exc |-> e, object |-> <<>>]
ReturnObject(o) ==
    [kind |-> "return", value |-> PARSED_OBJECT, exc |-> "", object |-> o]

\* response contents are sequences of characters: "a" stands for a member
\* of a JSON object, "p" for a character of prose, TICK for the backquote
NULL_TEXT == <<"N", "U", "L", "L">>
TICK == "tick"
FENCE == <<TICK, TICK, TICK>>
FENCE_JSON == <<TICK, TICK, TICK, "j", "s", "o", "n">>
OBJ == <<"{", "a", "}">>
NESTED == <<"{", "a", "{", "a", "}", "}">>
PROSE == <<"p", "p">>
NL == <<"\n">>
SP == <<" ">>
FENCED_OBJECT == FENCE_JSON \o NL \o OBJ \o NL \o FENCE
ErrorBody == <<"e">>

Min(S) == CHOOSE x \in S : \A y \in S : x <= y
Max(S) == CHOOSE x \in S : \A y \in S : y <= x

\* str.strip, str.startswith, str.endswith, s[n:], s[:-n], str.find and
\* str.rfind (1-based; 0 where Python gives -1)
Whitespace == {" ", "\n"}
strip(s) ==
    LET keep == {i \in DOMAIN s : s[i] \notin Whitespace}
    IN IF keep = {} THEN <<>> ELSE SubSeq(s, Min(keep), Max(keep))
startswith(s, prefix) ==
    Len(s) >= Len(prefix) /\ SubSeq(s, 1, Len(prefix)) = prefix
endswith(s, suffix) ==
    /\ Len(s) >= Len(suffix)
    /\ SubSeq(s, Len(s) - Len(suffix) + 1, Len(s)) = suffix
SliceFrom(s, n) == SubSeq(s, n + 1, Len(s))
SliceButLast(s, n) == SubSeq(s, 1, Len(s) - n)
find(s, c) ==
    LET at == {i \in DOMAIN s : s[i] = c} IN IF at = {} THEN 0 ELSE Min(at)
rfind(s, c) ==
    LET at == {i \in DOMAIN s : s[i] = c} IN IF at = {} THEN 0 ELSE Max(at)

\* '{' minus '}' among the characters b..e of s
Braces(s, b, e) ==
    Cardinality({i \in b..e : s[i] = "{"})
        - Cardinality({i \in b..e : s[i] = "}"})

\* json.loads: one object, members and nested objects inside, blanks anywhere
IsJsonObject(s) ==
    /\ Len(s) >= 2
    /\ s[1] = "{"
    /\ \A i \in DOMAIN s : s[i] \in {"{", "}", "a"} \cup Whitespace
    /\ \A n \in 1..(Len(s) - 1) : Braces(s, 1, n) > 0
    /\ Braces(s, 1, Len(s)) = 0
NotBlank(c) == c \notin Whitespace
json_loads(s) ==
    IF IsJsonObject(strip(s))
    THEN ReturnObject(SelectSeq(s, NotBlank))
    ELSE Raise("JSONDecodeError")

\* removal of the markdown fence, then strip
unfence(content) ==
    LET a == IF startswith(content, FENCE_JSON) THEN SliceFrom(content, 7)
             ELSE IF startswith(content, FENCE) THEN SliceFrom(content, 3)
             ELSE content
        b == IF endswith(a, FENCE) THEN SliceButLast(a, 3) ELSE a
    IN strip(b)

\* (variant: the span ends at the first closing brace)
object_span_FirstClose(content) ==
    LET start_idx == find(content, "{")
        end_idx == find(content, "}")
    IN IF start_idx # 0 /\ end_idx # 0 /\ end_idx > start_idx
       THEN SubSeq(content, start_idx, end_idx)
       ELSE content
\* content[start_idx:end_idx + 1] from the first '{' to the last '}'
object_span(content) ==
    LET start_idx == find(content, "{")
        end_idx == rfind(content, "}")
    IN IF start_idx # 0 /\ end_idx # 0 /\ end_idx > start_idx
       THEN SubSeq(content, start_idx, end_idx)
       ELSE content

\* the last resort after JSONDecodeError: the lines from the first one that
\* starts with '{' up to the first one after which the braces balance
LineStarts(s) == {1} \cup {i + 1 : i \in {j \in DOMAIN s : s[j] = "\n"}}
LineEnd(s, b) ==
    LET nl == {i \in b..Len(s) : s[i] = "\n"}
    IN IF nl = {} THEN Len(s) ELSE Min(nl) - 1
OpensObject(s, b) ==
    startswith(strip(SubSeq(s, b, LineEnd(s, b))), <<"{">>)
manual_content(s) ==
    LET opening == {b \in LineStarts(s) : OpensObject(s, b)}
        first == Min(opening)
        stops == {LineEnd(s, b) : b \in {x \in LineStarts(s) :
                      x >= first /\ Braces(s, first, LineEnd(s, x)) = 0}}
    IN IF opening = {} THEN <<>>
       ELSE SubSeq(s, first, IF stops = {} THEN Len(s) ELSE Min(stops))
manual_parse(s) ==
    IF manual_content(s) # <<>>
          /\ json_loads(manual_content(s)).kind = "return"
    THEN json_loads(manual_content(s))
    ELSE Return(None)

\* the status-200 branch of process_message
parse_content(raw) ==
    LET content == strip(raw) IN
    IF content = NULL_TEXT THEN Return(None)
    ELSE LET cleaned == object_span(unfence(content)) IN
         IF json_loads(cleaned).kind = "return" THEN json_loads(cleaned)
         ELSE manual_parse(cleaned)

NoResp == [net |-> "none", status |-> 0, content |-> <<>>, late |-> FALSE]

\* what one remote exchange can produce: an HTTP response, or an exception
\* raised by session.post; late: max_time has elapsed when it ends (the
\* clock matters to the decorator only after a failed exchange)
Responses ==
    {[net |-> "ok", status |-> HTTP_OK, content |-> c, late |-> FALSE] :
         c \in {FENCED_OBJECT, NULL_TEXT, PROSE}} \cup
    {[net |-> "ok", status |-> s, content |-> ErrorBody, late |-> FALSE] :
         s \in OtherStatuses} \cup
    {[net |-> "ok", status |-> HTTP_RATE_LIMIT, content |-> ErrorBody,
      late |-> l] : l \in BOOLEAN} \cup
    {[net |-> e, status |-> 0, content |-> <<>>, late |-> l] :
         e \in {"ClientError", "TimeoutError"}, l \in BOOLEAN}

\* the exceptions the backoff decorator is told to retry on
RetryOn == {"ClientError", "TimeoutError"}

\* connection error, timeout, or rate-limit response
Transient(resp) ==
    \/ resp.net \in {"ClientError", "TimeoutError"}
    \/ resp.net = "ok" /\ resp.status = HTTP_RATE_LIMIT

\* the try block of process_message
TryBlock(resp) ==
    IF resp.net # "ok" THEN Raise(resp.net)
    ELSE IF resp.status = HTTP_OK THEN parse_content(resp.content)
    ELSE IF resp.status = HTTP_RATE_LIMIT THEN Raise("ClientError")
    ELSE Return(None)

\* (variant: an error status is raised to the caller)
process_message_ErrorRaises(resp) ==
    IF resp.net = "ok" /\ resp.status \notin {HTTP_OK, HTTP_RATE_LIMIT}
    THEN Raise("ClientError")
    ELSE IF TryBlock(resp).kind = "raise" THEN Return(None)
    ELSE TryBlock(resp)
\* the body of process_message: try block plus its  except Exception
process_message(resp) ==
    IF TryBlock(resp).kind = "raise" THEN Return(None) ELSE TryBlock(resp)

\* backoff.on_exception around process_message: TRUE when the call is
\* issued again (nth: calls made so far, late: max_time has elapsed)
on_exception(res, nth, late) ==
    /\ res.kind = "raise"
    /\ res.exc \in RetryOn
    /\ nth < RETRY_MAX_TRIES
    /\ ~late

\* json.dumps(result, ensure_ascii=False) of the parsed analyzer result
json_dumps(v) == IF v = PARSED_OBJECT THEN ANALYSIS_JSON ELSE v

\* (variant: the success branch leaves openai_processed as it was)
process_single_message_NoFlag(md, res) ==
    IF res.kind = "return"
    THEN IF res.value # None
         THEN [md EXCEPT !.openai_analysis = json_dumps(res.value),
                         !.openai_error = None]
         ELSE [md EXCEPT !.openai_analysis = None,
                         !.openai_processed = FALSE,
                         !.openai_error = NULL_MESSAGE]
    ELSE [md EXCEPT !.openai_analysis = None,
                    !.openai_processed = FALSE,
                    !.openai_error = res.exc]

\* what process_single_message of the scheduler leaves in message_data
process_single_message(md, res) ==
    IF res.kind = "return"
    THEN IF res.value # None
         THEN [md EXCEPT !.openai_analysis = json_dumps(res.value),
                         !.openai_processed = TRUE,
                         !.openai_error = None]
         ELSE [md EXCEPT !.openai_analysis = None,
                         !.openai_processed = FALSE,
                         !.openai_error = NULL_MESSAGE]
    ELSE [md EXCEPT !.openai_analysis = None,
                    !.openai_processed = FALSE,
                    !.openai_error = res.exc]

\* (variant: a None result leaves message_data as it was built)
process_single_message_with_openai_Untouched(md, res) ==
    IF res.kind = "return"
    THEN IF res.value # None
         THEN [md EXCEPT !.openai_analysis = json_dumps(res.value),
                         !.openai_processed = TRUE,
                         !.openai_error = None]
         ELSE md
    ELSE [md EXCEPT !.openai_analysis = None,
                    !.openai_processed = FALSE,
                    !.openai_error = res.exc]
\* _process_single_message_with_openai of incremental mode
process_single_message_with_openai(md, res) ==
    IF res.kind = "return"
    THEN IF res.value # None
         THEN [md EXCEPT !.openai_analysis = json_dumps(res.value),
                         !.openai_processed = TRUE,
                         !.openai_error = None]
         ELSE [md EXCEPT !.openai_analysis = None,
                         !.openai_processed = FALSE,
                         !.openai_error = NULL_MESSAGE]
    ELSE [md EXCEPT !.openai_analysis = None,
                    !.openai_processed = FALSE,
                    !.openai_error = res.exc]

\* ------------------------------------------------------------------- state
VARIABLES
    exists,          \* os.path.exists(output_file)
    header,          \* the file starts with the schema header line
    rows,            \* the data lines of the file
    pending,         \* lines a rewrite in progress has still to write
    pc,              \* position of the main coroutine (run_scraper)
    incremental,     \* the incremental argument of run_scraper
    outcome,         \* "running", or how the most recent run ended
    processed_message_ids,
    fed,             \* messages the feed has yielded in this pass
    message_data,    \* incremental mode: the message being analyzed
    cur_tries,       \* incremental mode: remote calls made for it
    cur_last,        \* incremental mode: last remote response for it
    unprocessed_messages,   \* phase 2: the worklist (one task each)
    tpc,             \* phase 2: position of each task
    tries,           \* phase 2: remote calls made by each task
    last,            \* phase 2: last remote response of each task
    semaphore,       \* phase 2: free slots of asyncio.Semaphore
    processed_count,
    failed_count,
    summary,         \* the summary the scheduler has logged, if any
    releases,        \* calls of client.disconnect() made by this run
    exc,             \* the exception that leaves run_scraper's try statement
    log,             \* the line logged last, if about an update or a skip
    result           \* value returned by the last operation applied directly

disk == <<exists, header, rows, pending>>
feedvars == <<processed_message_ids, fed, message_data, cur_tries, cur_last>>
schedvars == <<unprocessed_messages, tpc, tries, last, semaphore,
               processed_count, failed_count, summary>>
runvars == <<releases, exc>>
opvars == <<log, result>>
vars == <<disk, pc, incremental, outcome, feedvars, schedvars, runvars,
          opvars>>

NoMessage == [message_id |-> 0, message_text |-> <<>>,
              openai_analysis |-> None, openai_processed |-> FALSE,
              openai_error |-> None]
NoPending == [header |-> FALSE, rows |-> <<>>]
NoSummary == [reported |-> FALSE, succeeded |-> 0, failed |-> 0]
NoLog == {}
NoResult == [kind |-> "none", value |-> None, exc |-> "", object |-> <<>>]

Tasks == DOMAIN unprocessed_messages
\* (variant: other tasks run while the file is being rewritten)
Writing_Never == FALSE
\* a task is inside the rewrite of _update_message_in_csv, which has no
\* await: no other task runs until it has returned
Writing == \E i \in Tasks : tpc[i] = "write"

\* the process has ended: its memory is gone, the next one starts afresh
FreshMemory ==
    /\ processed_message_ids' = {}
    /\ fed' = 0
    /\ message_data' = NoMessage
    /\ cur_tries' = 0
    /\ cur_last' = NoResp
    /\ unprocessed_messages' = <<>>
    /\ tpc' = <<>>
    /\ tries' = <<>>
    /\ last' = <<>>
    /\ semaphore' = MAX_CONCURRENT_REQUESTS
    /\ processed_count' = 0
    /\ failed_count' = 0
    /\ summary' = NoSummary
    /\ log' = NoLog

Init ==
    /\ exists = FALSE
    /\ header = FALSE
    /\ rows = <<>>
    /\ pending = NoPending
    /\ pc = "idle"
    /\ incremental = TRUE
    /\ outcome = "none"
    /\ processed_message_ids = {}
    /\ fed = 0
    /\ message_data = NoMessage
    /\ cur_tries = 0
    /\ cur_last = NoResp
    /\ unprocessed_messages = <<>>
    /\ tpc = <<>>
    /\ tries = <<>>
    /\ last = <<>>
    /\ semaphore = MAX_CONCURRENT_REQUESTS
    /\ processed_count = 0
    /\ failed_count = 0
    /\ summary = NoSummary
    /\ releases = 0
    /\ exc = None
    /\ log = NoLog
    /\ result = NoResult

\* ----------------------------------------------------------- orchestrator
\* main() calls run_scraper with Config.USE_INCREMENTAL
StartRun(inc) ==
    /\ pc = "idle"
    /\ pc' = "connect"
    /\ incremental' = inc
    /\ outcome' = "running"
    /\ releases' = 0
    /\ exc' = None
    /\ UNCHANGED <<disk, feedvars, schedvars, opvars>>

\* await self.connect_and_auth(): returns, or raises into except Exception
Connect(ok) ==
    /\ pc = "connect"
    /\ IF ok
       THEN pc' = "resolve" /\ UNCHANGED outcome
       ELSE pc' = "disconnect" /\ outcome' = "failed"
    /\ UNCHANGED <<disk, incremental, feedvars, schedvars>>
    /\ UNCHANGED <<runvars, opvars>>

\* (variant: the store is initialized before the channel is looked up)
Resolve_InitFirst(found) ==
    /\ pc = "resolve"
    /\ exists' = TRUE
    /\ header' = IF exists THEN header ELSE TRUE
    /\ IF found
       THEN /\ pc' = "feed"
            /\ processed_message_ids' =
                   load_existing_csv(exists, header, rows).processed_ids
            /\ UNCHANGED <<rows, pending, outcome, fed, message_data,
                           cur_tries, cur_last>>
       ELSE /\ pc' = "disconnect"
            /\ outcome' = "no_channel"
            /\ UNCHANGED <<rows, pending, feedvars>>
    /\ UNCHANGED <<incremental, schedvars>>
    /\ UNCHANGED <<runvars, opvars>>
\* get_channel_entity; on None run_scraper returns.  Otherwise the feed
\* pass starts: _load_existing_csv, then _initialize_csv
Resolve(found) ==
    /\ pc = "resolve"
    /\ IF found
       THEN /\ pc' = "feed"
            /\ processed_message_ids' =
                   load_existing_csv(exists, header, rows).processed_ids
            /\ exists' = TRUE
            /\ header' = IF exists THEN header ELSE TRUE
            /\ UNCHANGED <<rows, pending, outcome, fed, message_data,
                           cur_tries, cur_last>>
       ELSE /\ pc' = "disconnect"
            /\ outcome' = "no_channel"
            /\ UNCHANGED <<disk, feedvars>>
    /\ UNCHANGED <<incremental, schedvars>>
    /\ UNCHANGED <<runvars, opvars>>

LOG_SKIPPED == "Skipping already saved message"

\* (variant: no message is taken as known)
AlreadySaved_Never(m) == FALSE
\* if message.id in self.processed_message_ids
AlreadySaved(m) == m \in processed_message_ids

\* one iteration of  async for message in iter_messages(...)  of
\* scrape_messages_incremental / scrape_messages_hybrid
FeedNext(m) ==
    /\ pc = "feed"
    /\ fed < MaxFeed
    /\ fed' = fed + 1
    /\ log' = IF ~Qualifies(m) THEN log
              ELSE IF AlreadySaved(m) THEN {LOG_SKIPPED} ELSE NoLog
    /\ IF Qualifies(m) /\ ~AlreadySaved(m)
       THEN /\ Len(rows) < MaxRows
            /\ IF incremental
               THEN /\ message_data' = NewMessageData(m)
                    /\ cur_tries' = 1
                    /\ pc' = "analyze"
                    /\ UNCHANGED <<disk, processed_message_ids, cur_last>>
               ELSE /\ rows' = Append(rows, CsvRow(NewMessageData(m)))
                    /\ processed_message_ids' =
                           processed_message_ids \cup {m}
                    /\ UNCHANGED <<exists, header, pending, pc,
                                   message_data, cur_tries, cur_last>>
       ELSE UNCHANGED <<disk, pc, processed_message_ids, message_data,
                        cur_tries, cur_last>>
    /\ UNCHANGED <<incremental, outcome, schedvars>>
    /\ UNCHANGED <<runvars, result>>

\* (variant: the row of the message is written in front of the others)
IncrRespond_Prepend(resp) ==
    /\ pc = "analyze"
    /\ cur_last' = resp
    /\ LET res == process_message(resp) IN
       IF on_exception(res, cur_tries, resp.late)
       THEN /\ cur_tries' = cur_tries + 1
            /\ UNCHANGED <<disk, pc, processed_message_ids, message_data>>
       ELSE LET md == process_single_message_with_openai(message_data, res)
            IN /\ message_data' = md
               /\ rows' = <<CsvRow(md)>> \o rows
               /\ processed_message_ids' =
                      processed_message_ids \cup {md.message_id}
               /\ pc' = "pace"
               /\ UNCHANGED <<exists, header, pending, cur_tries>>
    /\ UNCHANGED <<incremental, outcome, fed, schedvars>>
    /\ UNCHANGED <<runvars, opvars>>
\* incremental mode: the remote exchange of process_message ends; unless
\* the decorator retries, _process_single_message_with_openai fills
\* message_data, which is appended and its id added to the known set
IncrRespond(resp) ==
    /\ pc = "analyze"
    /\ cur_last' = resp
    /\ LET res == process_message(resp) IN
       IF on_exception(res, cur_tries, resp.late)
       THEN /\ cur_tries' = cur_tries + 1
            /\ UNCHANGED <<disk, pc, processed_message_ids, message_data>>
       ELSE LET md == process_single_message_with_openai(message_data, res)
            IN /\ message_data' = md
               /\ rows' = Append(rows, CsvRow(md))
               /\ processed_message_ids' =
                      processed_message_ids \cup {md.message_id}
               /\ pc' = "pace"
               /\ UNCHANGED <<exists, header, pending, cur_tries>>
    /\ UNCHANGED <<incremental, outcome, fed, schedvars>>
    /\ UNCHANGED <<runvars, opvars>>

\* incremental mode: asyncio.sleep(delay_between_requests) is over
IncrWake ==
    /\ pc = "pace"
    /\ pc' = "feed"
    /\ message_data' = NoMessage
    /\ cur_tries' = 0
    /\ cur_last' = NoResp
    /\ UNCHANGED <<disk, incremental, outcome, processed_message_ids, fed,
                   schedvars>>
    /\ UNCHANGED <<runvars, opvars>>

\* the feed is exhausted.  Incremental mode: the run is complete.  Two-phase
\* mode: process_unprocessed_messages_with_openai loads the worklist and
\* returns if it is empty, else creates one task per entry and gathers
FeedEnd ==
    /\ pc = "feed"
    /\ LET wl == load_existing_csv(exists, header, rows).unprocessed_messages
       IN IF incremental \/ wl = <<>>
          THEN /\ pc' = "disconnect"
               /\ outcome' = "completed"
               /\ UNCHANGED schedvars
          ELSE /\ pc' = "gather"
               /\ unprocessed_messages' = wl
               /\ tpc' = [i \in DOMAIN wl |-> "wait"]
               /\ tries' = [i \in DOMAIN wl |-> 0]
               /\ last' = [i \in DOMAIN wl |-> NoResp]
               /\ UNCHANGED <<outcome, semaphore, processed_count,
                              failed_count, summary>>
    /\ log' = NoLog
    /\ UNCHANGED <<disk, incremental, feedvars>>
    /\ UNCHANGED <<runvars, result>>

\* ---------------------------------------------------- enrichment scheduler
\* asyncio.Semaphore(Config.MAX_CONCURRENT_REQUESTS): acquire goes through
\* only while the value is positive; leaving  async with  returns the slot
\* (variant: the gate admits whatever its value)
CanAcquire_Always(value) == TRUE
CanAcquire(value) == value > 0
\* (variant: the slot is not given back)
Release_Leak(value) == value
Release(value) == value + 1

\* (variant: the call is issued on admission, without the delay)
Acquire_NoDelay(i) ==
    /\ pc = "gather"
    /\ ~Writing
    /\ tpc[i] = "wait"
    /\ CanAcquire(semaphore)
    /\ \A j \in Tasks : j < i => tpc[j] # "wait"
    /\ tpc' = [tpc EXCEPT ![i] = "call"]
    /\ tries' = [tries EXCEPT ![i] = 1]
    /\ semaphore' = semaphore - 1
    /\ UNCHANGED <<disk, pc, incremental, outcome, feedvars,
                   unprocessed_messages, last, processed_count,
                   failed_count, summary>>
    /\ UNCHANGED <<runvars, opvars>>
\* async with semaphore: asyncio.Semaphore admits in arrival order
Acquire(i) ==
    /\ pc = "gather"
    /\ ~Writing
    /\ tpc[i] = "wait"
    /\ CanAcquire(semaphore)
    /\ \A j \in Tasks : j < i => tpc[j] # "wait"
    /\ tpc' = [tpc EXCEPT ![i] = "sleep"]
    /\ semaphore' = semaphore - 1
    /\ UNCHANGED <<disk, pc, incremental, outcome, feedvars,
                   unprocessed_messages, tries, last, processed_count,
                   failed_count, summary>>
    /\ UNCHANGED <<runvars, opvars>>

\* asyncio.sleep(Config.REQUEST_DELAY) is over: the remote call is issued
Wake(i) ==
    /\ pc = "gather"
    /\ ~Writing
    /\ tpc[i] = "sleep"
    /\ tpc' = [tpc EXCEPT ![i] = "call"]
    /\ tries' = [tries EXCEPT ![i] = 1]
    /\ UNCHANGED <<disk, pc, incremental, outcome, feedvars,
                   unprocessed_messages, last, semaphore, processed_count,
                   failed_count, summary>>
    /\ UNCHANGED <<runvars, opvars>>

\* the remote exchange of task i ends; unless the decorator retries,
\* process_single_message marks message_data, counts the outcome and enters
\* _update_message_in_csv, which reads and patches the rows and reopens the
\* file for writing (truncating it)
TaskRespond(i, resp) ==
    /\ pc = "gather"
    /\ ~Writing
    /\ tpc[i] = "call"
    /\ last' = [last EXCEPT ![i] = resp]
    /\ LET res == process_message(resp) IN
       IF on_exception(res, tries[i], resp.late)
       THEN /\ tries' = [tries EXCEPT ![i] = tries[i] + 1]
            /\ UNCHANGED <<disk, unprocessed_messages, tpc,
                           processed_count, failed_count>>
       ELSE LET md == process_single_message(unprocessed_messages[i], res)
            IN /\ unprocessed_messages' =
                      [unprocessed_messages EXCEPT ![i] = md]
               /\ processed_count' =
                      IF md.openai_processed THEN processed_count + 1
                      ELSE processed_count
               /\ failed_count' =
                      IF md.openai_processed THEN failed_count
                      ELSE failed_count + 1
               /\ pending' = [header |-> header,
                              rows |-> rewritten(header, rows, md)]
               /\ header' = FALSE
               /\ rows' = <<>>
               /\ tpc' = [tpc EXCEPT ![i] = "write"]
               /\ UNCHANGED <<exists, tries>>
    /\ UNCHANGED <<pc, incremental, outcome, feedvars, semaphore, summary>>
    /\ UNCHANGED <<runvars, opvars>>

\* (variant: an entry that failed is put back in the queue)
TaskWriteEnd_Requeue(i) ==
    /\ pc = "gather"
    /\ tpc[i] = "write"
    /\ header' = pending.header
    /\ rows' = pending.rows
    /\ pending' = NoPending
    /\ tpc' = [tpc EXCEPT ![i] =
                  IF unprocessed_messages[i].openai_processed
                  THEN "done" ELSE "wait"]
    /\ last' = [last EXCEPT ![i] = NoResp]
    /\ semaphore' = Release(semaphore)
    /\ log' = {LOG_UPDATED}
    /\ UNCHANGED <<exists, pc, incremental, outcome, feedvars,
                   unprocessed_messages, tries, processed_count,
                   failed_count, summary>>
    /\ UNCHANGED <<runvars, result>>
\* writeheader and writerows of _update_message_in_csv complete and the
\* file is closed; the task leaves  async with semaphore
TaskWriteEnd(i) ==
    /\ pc = "gather"
    /\ tpc[i] = "write"
    /\ header' = pending.header
    /\ rows' = pending.rows
    /\ pending' = NoPending
    /\ tpc' = [tpc EXCEPT ![i] = "done"]
    /\ last' = [last EXCEPT ![i] = NoResp]
    /\ semaphore' = Release(semaphore)
    /\ log' = {LOG_UPDATED}
    /\ UNCHANGED <<exists, pc, incremental, outcome, feedvars,
                   unprocessed_messages, tries, processed_count,
                   failed_count, summary>>
    /\ UNCHANGED <<runvars, result>>

\* (variant: the wait ends with the first finished task)
GatherReady_First == \E i \in Tasks : tpc[i] = "done"
\* asyncio.gather(*tasks, return_exceptions=True) returns
GatherReady == \A i \in Tasks : tpc[i] = "done"

\* (variant: the summary reports every entry as processed)
GatherDone_AllProcessed ==
    /\ pc = "gather"
    /\ GatherReady
    /\ summary' = [reported |-> TRUE,
                   succeeded |-> processed_count + failed_count,
                   failed |-> failed_count]
    /\ pc' = "disconnect"
    /\ outcome' = "completed"
    /\ UNCHANGED <<disk, incremental, feedvars, unprocessed_messages, tpc,
                   tries, last, semaphore, processed_count, failed_count>>
    /\ UNCHANGED <<runvars, opvars>>
\* gather has returned: the summary is logged and run_scraper goes on to
\* its finally clause
GatherDone ==
    /\ pc = "gather"
    /\ GatherReady
    /\ summary' = [reported |-> TRUE, succeeded |-> processed_count,
                   failed |-> failed_count]
    /\ pc' = "disconnect"
    /\ outcome' = "completed"
    /\ UNCHANGED <<disk, incremental, feedvars, unprocessed_messages, tpc,
                   tries, last, semaphore, processed_count, failed_count>>
    /\ UNCHANGED <<runvars, opvars>>

\* ------------------------------------------------- interrupt, kill, finish
\* the file after the process is stopped: as it is, unless a task is inside
\* the rewrite, where any cut-short outcome is possible
Stopped ==
    IF Writing
    THEN /\ \E d \in Damage(pending.header, pending.rows) :
               header' = d.header /\ rows' = d.rows
         /\ pending' = NoPending
         /\ UNCHANGED exists
    ELSE UNCHANGED disk

\* how Ctrl-C reaches run_scraper: KeyboardInterrupt raised in the
\* coroutine, or asyncio.run cancelling the main task (CancelledError)
Interrupts == {"KeyboardInterrupt", "CancelledError"}

\* the except clauses of run_scraper: what still propagates after them
except_clauses(e) ==
    IF e \in {"KeyboardInterrupt", "Exception"} THEN None ELSE e

\* (variant: the stack unwinds without the finally clause being run)
Unwind_NoFinally(e) ==
    /\ pc \in {"connect", "resolve", "feed", "analyze", "pace", "gather"}
    /\ Stopped
    /\ pc' = "idle"
    /\ outcome' = "interrupted"
    /\ exc' = except_clauses(e)
    /\ FreshMemory
    /\ UNCHANGED <<incremental, releases, result>>
\* interrupt e arrives while run_scraper is running: every unfinished task
\* is abandoned, the coroutines unwind (their locals are gone) through the
\* except clauses and the finally clause of run_scraper is reached
Unwind(e) ==
    /\ pc \in {"connect", "resolve", "feed", "analyze", "pace", "gather"}
    /\ Stopped
    /\ pc' = "disconnect"
    /\ outcome' = "interrupted"
    /\ exc' = except_clauses(e)
    /\ FreshMemory
    /\ UNCHANGED <<incremental, releases, result>>

Interrupt == \E e \in Interrupts : Unwind(e)

\* (variant: phase 1 absorbs the error and phase 2 starts)
FeedError_Continue ==
    /\ pc = "feed"
    /\ LET wl == load_existing_csv(exists, header, rows).unprocessed_messages
       IN IF incremental \/ wl = <<>>
          THEN /\ pc' = "disconnect"
               /\ outcome' = "failed"
               /\ exc' = except_clauses("Exception")
               /\ FreshMemory
          ELSE /\ pc' = "gather"
               /\ unprocessed_messages' = wl
               /\ tpc' = [i \in DOMAIN wl |-> "wait"]
               /\ tries' = [i \in DOMAIN wl |-> 0]
               /\ last' = [i \in DOMAIN wl |-> NoResp]
               /\ log' = NoLog
               /\ UNCHANGED <<outcome, exc, feedvars, semaphore,
                              processed_count, failed_count, summary>>
    /\ UNCHANGED <<disk, incremental, releases, result>>
\* iter_messages raises (network error, flood wait): the feed pass re-raises,
\* except Exception of run_scraper logs it, the finally clause is reached
FeedError ==
    /\ pc = "feed"
    /\ pc' = "disconnect"
    /\ outcome' = "failed"
    /\ exc' = except_clauses("Exception")
    /\ FreshMemory
    /\ UNCHANGED <<disk, incremental, releases, result>>

\* finally: await self.client.disconnect(); the process ends
Disconnect ==
    /\ pc = "disconnect"
    /\ pc' = "idle"
    /\ releases' = releases + 1
    /\ FreshMemory
    /\ UNCHANGED <<disk, incremental, outcome, exc, result>>

\* the process is killed (SIGKILL, power loss): nothing more runs
Kill ==
    /\ pc # "idle"
    /\ Stopped
    /\ pc' = "idle"
    /\ outcome' = "killed"
    /\ FreshMemory
    /\ UNCHANGED <<incremental, runvars, result>>

Next ==
    \/ \E inc \in BOOLEAN : StartRun(inc)
    \/ \E ok \in BOOLEAN : Connect(ok)
    \/ \E found \in BOOLEAN : Resolve(found)
    \/ \E m \in MsgIds : FeedNext(m)
    \/ \E resp \in Responses : IncrRespond(resp)
    \/ IncrWake
    \/ FeedEnd
    \/ \E i \in Tasks : Acquire(i)
    \/ \E i \in Tasks : Wake(i)
    \/ \E i \in Tasks, resp \in Responses : TaskRespond(i, resp)
    \/ \E i \in Tasks : TaskWriteEnd(i)
    \/ GatherDone
    \/ FeedError
    \/ Interrupt
    \/ Disconnect
    \/ Kill

Spec == Init /\ [][Next]_vars

\* main(): what it logs once  await scraper.run_scraper(...)  has ended with
\* e propagating (None: a normal return).  A CancelledError is caught by
\* neither except clause of main
LOG_COMPLETED == "Scraping completed successfully!"
LOG_MAIN_INTERRUPTED == "Interrupted by user. Exiting gracefully..."
LOG_MAIN_ERROR == "Error in main"
main(e) ==
    IF e = None THEN {LOG_COMPLETED}
    ELSE IF e = "KeyboardInterrupt" THEN {LOG_MAIN_INTERRUPTED}
    ELSE IF e = "Exception" THEN {LOG_MAIN_ERROR}
    ELSE NoLog

\* a run without external interrupt or kill
NextUninterrupted ==
    \/ \E inc \in BOOLEAN : StartRun(inc)
    \/ \E ok \in BOOLEAN : Connect(ok)
    \/ \E found \in BOOLEAN : Resolve(found)
    \/ \E m \in MsgIds : FeedNext(m)
    \/ \E resp \in Responses : IncrRespond(resp)
    \/ IncrWake
    \/ FeedEnd
    \/ \E i \in Tasks : Acquire(i)
    \/ \E i \in Tasks : Wake(i)
    \/ \E i \in Tasks, resp \in Responses : TaskRespond(i, resp)
    \/ \E i \in Tasks : TaskWriteEnd(i)
    \/ GatherDone
    \/ FeedError
    \/ Disconnect

\* the event loop runs every task that can run; a sleep ends and a remote
\* exchange ends (aiohttp.ClientTimeout(total=60))
SchedulerStep ==
    \/ \E i \in Tasks : Acquire(i)
    \/ \E i \in Tasks : Wake(i)
    \/ \E i \in Tasks, resp \in Responses : TaskRespond(i, resp)
    \/ \E i \in Tasks : TaskWriteEnd(i)

FairSpec == Init /\ [][NextUninterrupted]_vars /\ WF_vars(SchedulerStep)

\* the steps of a run once started: awaited calls return or raise, the feed
\* ends (limit / channel end), the event loop runs every task that can run
RunStep ==
    \/ \E ok \in BOOLEAN : Connect(ok)
    \/ \E found \in BOOLEAN : Resolve(found)
    \/ \E m \in MsgIds : FeedNext(m)
    \/ \E resp \in Responses : IncrRespond(resp)
    \/ IncrWake
    \/ FeedEnd
    \/ SchedulerStep
    \/ GatherDone
    \/ FeedError
    \/ Disconnect

\* runs that may be interrupted but whose process is not killed
NextRun ==
    \/ \E inc \in BOOLEAN : StartRun(inc)
    \/ RunStep
    \/ Interrupt

RunSpec == Init /\ [][NextRun]_vars /\ WF_vars(RunStep)

\* ------------------------------------------- operations applied directly
\* The store and analyzer operations called on their own, on any file the
\* program or an outside edit can leave: with or without the header line,
\* rows in each record state, a text with a carriage return, rows whose
\* message_id cell is empty or not a number.
Record(i, t, a, p, e) ==
    [message_id |-> i, message_text |-> t, openai_analysis |-> a,
     openai_processed |-> p, openai_error |-> e]
StoreIds == 1..MaxStoreId
PlainText == <<"U", "n", "x">>
StoredTexts == {PlainText, <<"U", "n", "\r">>}
StoredRecords ==
    {Record(i, t, None, FALSE, None) : i \in StoreIds, t \in StoredTexts}
    \cup {Record(i, t, ANALYSIS_JSON, TRUE, None) :
              i \in StoreIds, t \in StoredTexts}
    \cup {Record(i, t, None, FALSE, NULL_MESSAGE) :
              i \in StoreIds, t \in StoredTexts}
MalformedLines ==
    {[CsvRow(Record(1, PlainText, None, FALSE, None))
          EXCEPT !.message_id = c] : c \in {"", "abc"}}
StoreLines == {CsvRow(md) : md \in StoredRecords} \cup MalformedLines
Stores == UNION {[1..n -> StoreLines] : n \in 0..MaxLines}

\* updated_message as process_single_message hands it to the update
UpdateInputs ==
    {Record(i, PlainText, ANALYSIS_JSON, TRUE, None) :
         i \in 1..(MaxStoreId + 1)}
    \cup {Record(i, PlainText, None, FALSE, NULL_MESSAGE) :
              i \in 1..(MaxStoreId + 1)}

OpsInit ==
    /\ exists \in BOOLEAN
    /\ header \in BOOLEAN
    /\ rows \in Stores
    /\ ~exists => (~header /\ rows = <<>>)
    /\ pending = NoPending
    /\ pc = "ops"
    /\ incremental = TRUE
    /\ outcome = "none"
    /\ processed_message_ids = {}
    /\ fed = 0
    /\ message_data = NoMessage
    /\ cur_tries = 0
    /\ cur_last = NoResp
    /\ unprocessed_messages = <<>>
    /\ tpc = <<>>
    /\ tries = <<>>
    /\ last = <<>>
    /\ semaphore = MAX_CONCURRENT_REQUESTS
    /\ processed_count = 0
    /\ failed_count = 0
    /\ summary = NoSummary
    /\ releases = 0
    /\ exc = None
    /\ log = NoLog
    /\ result = NoResult

\* self._update_message_in_csv(filename, md), not interrupted
Update(md) ==
    /\ pc = "ops"
    /\ LET u == update_message_in_csv(exists, header, rows, md)
       IN /\ header' = u.header
          /\ rows' = u.rows
          /\ log' = u.log
    /\ result' = Return(None)
    /\ UNCHANGED <<exists, pending, pc, incremental, outcome, feedvars,
                   schedvars, runvars>>

\* self._load_existing_csv(filename); reading raises after k data lines
\* (k = Len(rows): the whole file is read)
Load(k) ==
    /\ pc = "ops"
    /\ LET l == load_existing_csv(exists, header, SubSeq(rows, 1, k))
       IN /\ processed_message_ids' = l.processed_ids
          /\ unprocessed_messages' = l.unprocessed_messages
    /\ result' = Return(None)
    /\ UNCHANGED <<disk, pc, incremental, outcome, fed, message_data,
                   cur_tries, cur_last, tpc, tries, last, semaphore,
                   processed_count, failed_count, summary, runvars, log>>

\* what the analyzer call of a scheduler task can end in
Outcomes == {ReturnObject(OBJ), Return(None), Raise("ClientError")}

\* the body of process_single_message for the k-th entry of the worklist
\* loaded from the file, the analyzer call ending in res: message_data is
\* marked and handed to _update_message_in_csv
Persist(k, res) ==
    /\ pc = "ops"
    /\ LET wl == load_existing_csv(exists, header, rows).unprocessed_messages
       IN /\ k \in DOMAIN wl
          /\ message_data' = process_single_message(wl[k], res)
    /\ LET u == update_message_in_csv(exists, header, rows, message_data')
       IN /\ header' = u.header
          /\ rows' = u.rows
          /\ log' = u.log
    /\ result' = res
    /\ pc' = "persisted"
    /\ UNCHANGED <<exists, pending, incremental, outcome,
                   processed_message_ids, fed, cur_tries, cur_last,
                   schedvars, runvars>>

OpsNext ==
    \/ \E md \in UpdateInputs : Update(md)
    \/ \E k \in 0..Len(rows) : Load(k)

OpsSpec == OpsInit /\ [][OpsNext]_vars

\* one worklist entry of any stored file taken through a scheduler task
PersistNext == \E k \in 1..MaxLines, res \in Outcomes : Persist(k, res)
PersistSpec == OpsInit /\ [][PersistNext]_vars

\* self._initialize_csv(filename), called on any stored file and then once
\* more on what it left
Initialize ==
    /\ pc \in {"ops", "initialized"}
    /\ pc' = IF pc = "ops" THEN "initialized" ELSE "initialized twice"
    /\ LET i == initialize_csv(exists, header, rows)
       IN /\ exists' = i.exists
          /\ header' = i.header
          /\ rows' = i.rows
    /\ result' = Return(None)
    /\ UNCHANGED <<pending, incremental, outcome, feedvars, schedvars,
                   runvars, log>>
InitializeNext == Initialize
InitializeSpec == OpsInit /\ [][InitializeNext]_vars

\* ---------------------------------------------------------- configuration
\* class attributes of Config as written in the class body
Defaults ==
    [CHANNEL_USERNAME |-> "kpszsu", USE_INCREMENTAL |-> TRUE,
     OUTPUT_FILE |-> "ukraine_airforce_updates.csv", LOG_LEVEL |-> "INFO",
     MAX_CONCURRENT_REQUESTS |-> 5]
\* env_mappings of load_from_env: environment variable -> attribute
env_mappings ==
    [TELEGRAM_CHANNEL |-> "CHANNEL_USERNAME",
     USE_INCREMENTAL |-> "USE_INCREMENTAL",
     OUTPUT_FILE |-> "OUTPUT_FILE",
     LOG_LEVEL |-> "LOG_LEVEL"]
\* the value of a key that is present (a key is given as the set of its
\* values: empty when config.json or the environment does not have it)
Given(s) == CHOOSE v \in s : TRUE

\* load_from_file on a readable config.json: every key that is an
\* attribute of the class is set to the value of the file
load_from_file(cls, config_data) ==
    [key \in DOMAIN cls |->
        IF config_data[key] # {} THEN Given(config_data[key]) ELSE cls[key]]

\* the conversion of load_from_env from the text of the variable
FromEnv(config_attr, value) ==
    IF config_attr = "USE_INCREMENTAL"
    THEN Lower(value) \in {"true", "1", "yes", "on"}
    ELSE value
\* load_from_env: every mapped variable that is set is converted and
\* assigned to its attribute
load_from_env(cls, environ) ==
    [config_attr \in DOMAIN cls |->
        IF \E env_var \in DOMAIN env_mappings :
               /\ env_mappings[env_var] = config_attr
               /\ environ[env_var] # {}
        THEN LET env_var == CHOOSE e \in DOMAIN env_mappings :
                                env_mappings[e] = config_attr
             IN FromEnv(config_attr, Given(environ[env_var]))
        ELSE cls[config_attr]]

\* contents of config.json and of the environment
ConfigFiles ==
    [CHANNEL_USERNAME : {{}, {"chan_file"}},
     USE_INCREMENTAL : {{}, {TRUE}, {FALSE}},
     OUTPUT_FILE : {{}, {"file.csv"}},
     LOG_LEVEL : {{}, {"DEBUG"}, {"WARNING"}},
     MAX_CONCURRENT_REQUESTS : {{}, {2}}]
Environs ==
    [TELEGRAM_CHANNEL : {{}, {"chan_env"}},
     USE_INCREMENTAL : {{}, {"True"}, {"0"}, {"on"}},
     OUTPUT_FILE : {{}, {"env.csv"}},
     LOG_LEVEL : {{}, {"ERROR"}}]

ConfigInit ==
    /\ exists = FALSE
    /\ header = FALSE
    /\ rows = <<>>
    /\ pending = NoPending
    /\ pc = "import"
    /\ incremental = Defaults.USE_INCREMENTAL
    /\ outcome = "none"
    /\ processed_message_ids = {}
    /\ fed = 0
    /\ message_data = NoMessage
    /\ cur_tries = 0
    /\ cur_last = NoResp
    /\ unprocessed_messages = <<>>
    /\ tpc = <<>>
    /\ tries = <<>>
    /\ last = <<>>
    /\ semaphore = MAX_CONCURRENT_REQUESTS
    /\ processed_count = 0
    /\ failed_count = 0
    /\ summary = NoSummary
    /\ releases = 0
    /\ exc = None
    /\ log = NoLog
    /\ result = NoResult

\* import of config.py: Config.load_from_file() and then
\* Config.load_from_env(); main hands Config.USE_INCREMENTAL to
\* run_scraper.  result holds the class attributes after the import
Configure(config_data, environ) ==
    /\ pc = "import"
    /\ pc' = "configured"
    /\ LET Config == load_from_env(load_from_file(Defaults, config_data),
                                  environ)
       IN /\ result' = [kind |-> "config", value |-> Config,
                        exc |-> "", object |-> <<>>]
          /\ incremental' = Config.USE_INCREMENTAL
    /\ UNCHANGED <<disk, outcome, feedvars, schedvars, runvars, log>>
ConfigNext ==
    \E config_data \in ConfigFiles, environ \in Environs :
        Configure(config_data, environ)
ConfigSpec == ConfigInit /\ [][ConfigNext]_vars

\* ------------------------------------------------ store I/O errors on append
LOG_APPEND_ERROR == "Error appending to CSV"

\* an iteration of scrape_messages_hybrid in which open(filename, 'a') or
\* writerow raises (disk full, file locked, permission lost): the except
\* clause of _append_to_csv logs the error and returns, the loop goes on
FeedNextAppendError(m) ==
    /\ pc = "feed"
    /\ ~incremental
    /\ fed < MaxFeed
    /\ Qualifies(m) /\ ~AlreadySaved(m)
    /\ fed' = fed + 1
    /\ log' = {LOG_APPEND_ERROR}
    /\ processed_message_ids' = processed_message_ids \cup {m}
    /\ UNCHANGED <<disk, pc, incremental, outcome, message_data, cur_tries,
                   cur_last, schedvars, runvars, result>>

\* the same in scrape_messages_incremental, after the analyzer has answered
IncrRespondAppendError(resp) ==
    /\ pc = "analyze"
    /\ cur_last' = resp
    /\ LET res == process_message(resp) IN
       /\ ~on_exception(res, cur_tries, resp.late)
       /\ message_data' =
              process_single_message_with_openai(message_data, res)
    /\ log' = {LOG_APPEND_ERROR}
    /\ processed_message_ids' =
           processed_message_ids \cup {message_data.message_id}
    /\ pc' = "pace"
    /\ UNCHANGED <<disk, incremental, outcome, fed, cur_tries, schedvars,
                   runvars, result>>

\* runs that are not stopped, on a disk where an append can fail
NextAppendErrors ==
    \/ NextUninterrupted
    \/ \E m \in MsgIds : FeedNextAppendError(m)
    \/ \E resp \in Responses : IncrRespondAppendError(resp)
AppendErrorSpec == Init /\ [][NextAppendErrors]_vars

\* one message analyzed on its own: any response, status-200 contents of
\* every shape (sentinel, fenced, bare, with prose around, broken)
Objects == {OBJ, NESTED}
Contents ==
    {NULL_TEXT, SP \o NULL_TEXT \o NL, PROSE, <<>>,
     OBJ \o NL \o OBJ, PROSE \o <<"{">> \o PROSE \o SP \o OBJ,
     <<"{", "a">>, <<"}", "{">>, <<"{", "p", "}">>}
    \cup {FENCE_JSON \o NL \o o \o NL \o FENCE : o \in Objects}
    \cup {FENCE \o o \o FENCE : o \in Objects}
    \cup {PROSE \o SP \o o : o \in Objects}
    \cup {PROSE \o NL \o o \o NL \o PROSE : o \in Objects}
    \cup Objects
AnalyzerResponses ==
    {[net |-> "ok", status |-> HTTP_OK, content |-> c, late |-> FALSE] :
         c \in Contents} \cup Responses

AnalyzerInit ==
    /\ exists = FALSE
    /\ header = FALSE
    /\ rows = <<>>
    /\ pending = NoPending
    /\ pc = "classify"
    /\ incremental = TRUE
    /\ outcome = "none"
    /\ processed_message_ids = {}
    /\ fed = 0
    /\ message_data \in
           {NewMessageData(m) : m \in {x \in MsgIds : Qualifies(x)}}
    /\ cur_tries = 1
    /\ cur_last \in AnalyzerResponses
    /\ unprocessed_messages = <<>>
    /\ tpc = <<>>
    /\ tries = <<>>
    /\ last = <<>>
    /\ semaphore = MAX_CONCURRENT_REQUESTS
    /\ processed_count = 0
    /\ failed_count = 0
    /\ summary = NoSummary
    /\ releases = 0
    /\ exc = None
    /\ log = NoLog
    /\ result = NoResult

\* processor.process_message(message_data['message_text']) with the remote
\* exchange ending in cur_last, inside _process_single_message_with_openai
Classify ==
    /\ pc = "classify"
    /\ pc' = "classified"
    /\ result' = process_message(cur_last)
    /\ message_data' = process_single_message_with_openai(
                           message_data, process_message(cur_last))
    /\ UNCHANGED <<disk, incremental, outcome, processed_message_ids, fed,
                   cur_tries, cur_last, schedvars, runvars, log>>

AnalyzerSpec == AnalyzerInit /\ [][Classify]_vars

\* ------------------------------------------------------------ properties
RowIndex == DOMAIN rows
\* the three record states of a stored line
CollectedOnly(r) ==
    r.openai_processed = "False" /\ r.openai_analysis = ""
        /\ r.openai_error = ""
TerminallyEnriched(r) ==
    r.openai_processed = "True" /\ r.openai_analysis # ""
        /\ r.openai_error = ""
TerminallyFailed(r) ==
    r.openai_processed = "False" /\ r.openai_error # ""
\* ids of the entries of a worklist
WorklistIds(wl) == {wl[k].message_id : k \in DOMAIN wl}
\* the worklist a fresh process builds from the file as it will be
NextWorklist ==
    load_existing_csv(exists', header', rows').unprocessed_messages
\* the records the store held at its last completed write
Persisted == IF Writing THEN pending.rows ELSE rows

\* C1: the store never contains two rows with the same message_id, for any
\* sequence of runs, completed, failed or interrupted at any point.
C1_NoDuplicateRows ==
    \A i, j \in RowIndex :
        i # j => rows[i].message_id # rows[j].message_id

\* C2: when a two-phase run is killed in phase 2, the worklist a fresh
\* process builds from the store is exactly the set of stored records with
\* enrichment_done=false and enrichment_error=null.
C2_ResumeWorklist ==
    [][(Kill /\ pc = "gather")
        => WorklistIds(NextWorklist) =
               {int(rows'[k].message_id) : k \in
                   {n \in DOMAIN rows' : CollectedOnly(rows'[n])}}]_vars

\* C3: with concurrency_limit = N the number of analyzer calls in flight
\* (and of tasks holding a slot of the gate) never exceeds N.
InFlight == {i \in Tasks : tpc[i] = "call"}
Admitted == {i \in Tasks : tpc[i] \in {"sleep", "call", "write"}}
C3_ConcurrencyBound ==
    /\ Cardinality(InFlight) <= MAX_CONCURRENT_REQUESTS
    /\ Cardinality(Admitted) <= MAX_CONCURRENT_REQUESTS
C3_Witness ==
    /\ Cardinality(InFlight) = MAX_CONCURRENT_REQUESTS
    /\ \E i \in Tasks : tpc[i] = "wait"

\* C4: an interrupt or kill at any point leaves every previously persisted
\* record in the store.
C4_NoRecordLost ==
    [][(Kill \/ Interrupt)
        => \A k \in DOMAIN Persisted :
               \E n \in DOMAIN rows' :
                   rows'[n].message_id = Persisted[k].message_id]_vars

\* C5: when the scheduler is interrupted, every entry whose update completed
\* keeps its persisted outcome, and every entry not yet written back is in
\* the worklist of the next run.
C5_InterruptKeepsProgress ==
    [][(Interrupt /\ pc = "gather")
        => \A i \in Tasks :
               /\ tpc[i] = "done" =>
                      \E n \in DOMAIN rows' :
                          rows'[n] = CsvRow(unprocessed_messages[i])
               /\ tpc[i] \in {"wait", "sleep", "call"} =>
                      unprocessed_messages[i].message_id
                          \in WorklistIds(NextWorklist)]_vars

\* C6: after every completed store write each stored record is collected-
\* only, terminally enriched or terminally failed, and nothing else.
C6_ValidRecordStates ==
    ~Writing =>
        \A n \in RowIndex :
            \/ CollectedOnly(rows[n])
            \/ TerminallyEnriched(rows[n])
            \/ TerminallyFailed(rows[n]) /\ rows[n].openai_analysis = ""
C6_Witness ==
    /\ ~Writing
    /\ \E a, b, c \in RowIndex :
           /\ CollectedOnly(rows[a])
           /\ TerminallyEnriched(rows[b])
           /\ TerminallyFailed(rows[c])

\* C7: a transient failure (connection error, timeout, status 429) with the
\* attempt and time bounds not exceeded makes classify issue the call again.
C7_TransientIsRetried ==
    /\ \A i \in Tasks :
           tpc[i] = "write" =>
               ~(Transient(last[i]) /\ tries[i] < RETRY_MAX_TRIES
                   /\ ~last[i].late)
    /\ pc = "pace" =>
           ~(Transient(cur_last) /\ cur_tries < RETRY_MAX_TRIES
               /\ ~cur_last.late)

\* C8: when classify ends on a transient failure with a bound exceeded it
\* raises, so the caller records the exception's message and not the fixed
\* insufficient-data message.
C8_ExhaustionRaises ==
    /\ \A i \in Tasks :
           (tpc[i] = "write" /\ Transient(last[i])
                /\ (tries[i] >= RETRY_MAX_TRIES \/ last[i].late))
               => unprocessed_messages[i].openai_error # NULL_MESSAGE
    /\ (pc = "pace" /\ Transient(cur_last)
            /\ (cur_tries >= RETRY_MAX_TRIES \/ cur_last.late))
           => message_data.openai_error # NULL_MESSAGE

\* C9: without external interrupt every worklist entry eventually reaches a
\* terminal outcome that is written through the store update, whatever the
\* outcomes of the other entries.
EntryWritten(k) ==
    /\ k \in Tasks
    /\ tpc[k] = "done"
    /\ ~CollectedOnly(CsvRow(unprocessed_messages[k]))
    /\ \E n \in RowIndex : rows[n] = CsvRow(unprocessed_messages[k])
C9_EveryEntryFinishes ==
    \A k \in 1..(MaxRows + 1) :
        (pc = "gather" /\ k \in Tasks) ~> EntryWritten(k)
C9_Witness ==
    /\ Len(unprocessed_messages) > MAX_CONCURRENT_REQUESTS
    /\ \A k \in Tasks : EntryWritten(k)
    /\ \E a, b \in Tasks :
           /\ unprocessed_messages[a].openai_processed
           /\ ~unprocessed_messages[b].openai_processed

\* C10: the scheduler reports its summary only after every scheduled entry
\* has reached a terminal outcome and has been written back.
C10_SummaryAfterAll ==
    summary.reported =>
        \A i \in Tasks : tpc[i] = "done"
C10_Witness ==
    /\ summary.reported
    /\ Len(unprocessed_messages) > MAX_CONCURRENT_REQUESTS

\* C11: every run that starts ends disconnected: completed, interrupted in
\* any state, failed to authenticate, channel not resolved or failed while
\* running, the connection is eventually released exactly once, and no
\* feed, analyzer or store operation of the run happens after the release.
C11_ReleasedOnce ==
    /\ [](releases <= 1)
    /\ [](releases = 1 => pc = "idle")
    /\ [](pc = "idle" /\ outcome # "none" => releases = 1)
    /\ (pc # "idle") ~> (pc = "idle" /\ releases = 1)
C11_Witness ==
    /\ pc = "idle"
    /\ releases = 1
    /\ outcome = "interrupted"
    /\ rows # <<>>

\* C12: when a run is interrupted, after the disconnect the interrupt is
\* signalled again, so the caller of run_scraper observes the interrupt
\* and not a normal return.
C12_InterruptResignalled ==
    (pc = "idle" /\ outcome = "interrupted") => exc # None

\* C13: in incremental mode the record of a qualifying new message is
\* appended before the analyzer is invoked for it: while the analyzer call
\* for a message is in progress a row with its message_id is in the store.
C13_AppendBeforeAnalyze ==
    pc = "analyze" =>
        \E n \in RowIndex :
            rows[n].message_id = str(message_data.message_id)

\* C14: in two-phase mode phase 1 makes no analyzer call and appends every
\* qualifying new message as collected-only; phase 2 starts only after the
\* feed pass has ended, and its worklist is built from the store, so it
\* holds every unenriched stored record, those of earlier runs included.
StoredUnenriched ==
    {int(rows[n].message_id) : n \in {k \in RowIndex :
                                        rows[k].openai_processed = "False"}}
C15_SecondPassAppendsNothing ==
    [][FeedEnd
        => \A m \in processed_message_ids :
               m \in load_existing_csv(exists', header', rows').processed_ids
      ]_vars

\* C16: an update whose message_id matches no stored row leaves the store
\* unchanged: header, number of rows, their order and every field.
NoRowMatches(md) ==
    \A n \in RowIndex : rows[n].message_id # str(md.message_id)
C16_UpdateMissFrame ==
    [][\A md \in UpdateInputs :
           (Update(md) /\ NoRowMatches(md))
               => exists' = exists /\ header' = header /\ rows' = rows]_vars

\* C17: an update whose message_id matches no stored row logs an error for
\* the miss and does not report the update as done.
C17_UpdateMissLogged ==
    [][\A md \in UpdateInputs :
           (Update(md) /\ NoRowMatches(md))
               => LOG_UPDATE_ERROR \in log' /\ LOG_UPDATED \notin log']_vars

\* C18: load_all never raises: a missing file gives an empty id set and an
\* empty worklist; a file whose reading fails part-way gives the ids and
\* unenriched records of the rows read up to the failure; a row whose
\* message_id is empty or not an integer is skipped and the rows after it
\* are still loaded.
IdsRead(k) ==
    {n \in DOMAIN Decimal : \E i \in 1..k : rows[i].message_id = str(n)}
UnenrichedRead(k) ==
    {n \in DOMAIN Decimal :
        \E i \in 1..k : /\ rows[i].message_id = str(n)
                         /\ rows[i].openai_processed = "False"}
C18_LoadFailsSoftly ==
    [][\A k \in 0..Len(rows) :
           Load(k)
               => /\ result'.kind = "return"
                  /\ ~exists => /\ processed_message_ids' = {}
                                /\ unprocessed_messages' = <<>>
                  /\ header => /\ processed_message_ids' = IdsRead(k)
                               /\ WorklistIds(unprocessed_messages')
                                      = UnenrichedRead(k)]_vars
C18_Witness ==
    /\ result.kind = "return"
    /\ header
    /\ Len(rows) = 2
    /\ ~ValidId(rows[1].message_id)
    /\ ValidId(rows[2].message_id)
    /\ processed_message_ids = {int(rows[2].message_id)}
    /\ WorklistIds(unprocessed_messages) = {int(rows[2].message_id)}

\* C20: on a status-200 response the analyzer returns None when the trimmed
\* content is exactly NULL; the parsed object when the content is a JSON
\* object inside a json fence; and the parsed object when the content is
\* prose followed by a JSON object (the span from the first opening to the
\* last closing brace is what is parsed).
C20_ParseStatus200 ==
    (pc = "classified" /\ cur_last.net = "ok" /\ cur_last.status = HTTP_OK)
        => /\ strip(cur_last.content) = NULL_TEXT => result = Return(None)
           /\ \A o \in Objects :
                  /\ cur_last.content = FENCE_JSON \o NL \o o \o NL \o FENCE
                         => result = ReturnObject(o)
                  /\ cur_last.content = PROSE \o SP \o o
                         => result = ReturnObject(o)
                  /\ cur_last.content = PROSE \o NL \o o \o NL \o PROSE
                         => result = ReturnObject(o)
C20_Witness ==
    /\ pc = "classified"
    /\ cur_last.status = HTTP_OK
    /\ cur_last.content = PROSE \o SP \o NESTED
    /\ result = ReturnObject(NESTED)
    /\ message_data.openai_processed

\* C19: a feed message reaches reconciliation only if its text is non-empty
\* and contains the search phrase as a case-sensitive literal substring; a
\* message without the phrase or with empty text never appears in the
\* store or before the analyzer, in either mode.
HasPhrase(t) == t # <<>> /\ Contains(t, SEARCH_PHRASE)
C19_OnlyQualifying ==
    /\ [](/\ \A n \in RowIndex : HasPhrase(rows[n].message_text)
          /\ \A n \in DOMAIN pending.rows :
                 HasPhrase(pending.rows[n].message_text)
          /\ pc \in {"analyze", "pace"} => HasPhrase(message_data.message_text)
          /\ \A i \in Tasks : HasPhrase(unprocessed_messages[i].message_text))
    /\ [][\A m \in MsgIds :
             (FeedNext(m) /\ ~HasPhrase(MessageText(m)))
                 => UNCHANGED <<disk, pc, processed_message_ids,
                                message_data>>]_vars
C19_Witness ==
    /\ pc = "feed"
    /\ fed = MaxFeed
    /\ exists /\ header
    /\ rows = <<>>
    /\ processed_message_ids = {}


\* C21: in incremental mode an interrupt or error at any point leaves each
\* message seen in the run absent from the store or present with its
\* enrichment outcome (done with a result, or an error): every step of an
\* incremental pass, the stopping ones included, leaves the file as it is
\* or appends the one row of the message in hand, never collected-only.
IncrementalPass == incremental /\ pc \in {"feed", "analyze", "pace"}
C21_IncrementalAllOrNothing ==
    [][IncrementalPass
        => /\ exists' = exists /\ header' = header
           /\ \/ rows' = rows
              \/ /\ pc = "analyze"
                 /\ Len(rows') = Len(rows) + 1
                 /\ SubSeq(rows', 1, Len(rows)) = rows
                 /\ LET r == rows'[Len(rows')]
                    IN /\ r.message_id = str(message_data.message_id)
                       /\ \/ TerminallyEnriched(r)
                          \/ TerminallyFailed(r) /\ r.openai_analysis = ""
      ]_vars
C21_Witness ==
    /\ incremental
    /\ pc = "analyze"
    /\ Len(rows) = 1
    /\ TerminallyFailed(rows[1])
    /\ rows[1].message_id # str(message_data.message_id)


\* C22: in incremental mode the messages are handled strictly one after
\* another.  While a message is in hand (analyzer call, append, pacing
\* sleep) the feed is not advanced and the message in hand stays the same;
\* a message is taken in hand only when none is; the file changes only by
\* the append that ends the analysis of the message in hand, which puts its
\* row after every row written before.  So the rows of a pass lie in the
\* order in which the feed yielded the new messages.
InHand == incremental /\ pc \in {"analyze", "pace"}
C22_OneAtATime ==
    /\ [][InHand
            => /\ pc' \in {"feed", "analyze", "pace"} => fed' = fed
               /\ pc' \in {"analyze", "pace"} =>
                      message_data'.message_id = message_data.message_id
         ]_vars
    /\ [][(pc # "analyze" /\ pc' = "analyze")
            => /\ pc = "feed" /\ incremental
               /\ fed' = fed + 1
               /\ message_data' = NewMessageData(message_data'.message_id)
               /\ rows' = rows]_vars
    /\ [][(incremental /\ pc = "analyze" /\ pc' = "pace")
            => rows' = Append(rows, CsvRow(message_data'))]_vars
    /\ [][(IncrementalPass /\ rows' # rows)
            => pc = "analyze" /\ pc' = "pace"]_vars
C22_Witness ==
    /\ incremental
    /\ pc = "pace"
    /\ fed = 2
    /\ Len(rows) = 2
    /\ rows[1].message_id # rows[2].message_id
    /\ rows[2] = CsvRow(message_data)
    /\ processed_message_ids =
           {int(rows[1].message_id), int(rows[2].message_id)}


\* C23: a qualifying feed message whose message_id is already known (loaded
\* from the store at the start of the pass, or appended earlier in the same
\* pass) is skipped entirely, in either mode: no append, no analyzer call,
\* no change to the stored rows; matching is by equality of message_id only
\* (whatever the state or the text of the stored row).
C23_KnownIsSkipped ==
    /\ [][\A m \in MsgIds :
             (FeedNext(m) /\ Qualifies(m) /\ m \in processed_message_ids)
                 => /\ UNCHANGED <<disk, pc, processed_message_ids,
                                   message_data, cur_tries, schedvars>>
                    /\ LOG_SKIPPED \in log']_vars
    /\ [][(pc = "resolve" /\ pc' = "feed")
             => processed_message_ids' =
                    {n \in DOMAIN Decimal :
                        header /\ \E k \in RowIndex :
                                      rows[k].message_id = str(n)}]_vars
    /\ [][(pc \in {"feed", "analyze"} /\ Len(rows') = Len(rows) + 1)
             => (processed_message_ids' = processed_message_ids
                    \cup {int(rows'[Len(rows')].message_id)})]_vars
C23_Witness ==
    /\ pc = "feed"
    /\ log = {LOG_SKIPPED}
    /\ Len(rows) = 2
    /\ \E k \in RowIndex : ~CollectedOnly(rows[k])
    /\ processed_message_ids =
           {int(rows[1].message_id), int(rows[2].message_id)}


\* C24: for each worklist entry the scheduler persists the state matching
\* the analyzer outcome: a result gives processed=True with the serialized
\* result and no error; None gives processed=False, no result and the fixed
\* message; an exception gives processed=False, no result and the
\* exception's message; in each case the row goes through the store update.
C24_OutcomePersisted ==
    [][\A k \in 1..MaxLines, res \in Outcomes :
           Persist(k, res)
               => /\ \/ /\ res.kind = "return" /\ res.value # None
                        /\ message_data'.openai_processed
                        /\ message_data'.openai_analysis = ANALYSIS_JSON
                        /\ message_data'.openai_error = None
                     \/ /\ res.kind = "return" /\ res.value = None
                        /\ ~message_data'.openai_processed
                        /\ message_data'.openai_analysis = None
                        /\ message_data'.openai_error = NULL_MESSAGE
                     \/ /\ res.kind = "raise"
                        /\ ~message_data'.openai_processed
                        /\ message_data'.openai_analysis = None
                        /\ message_data'.openai_error = res.exc
                  /\ LOG_UPDATED \in log'
                  /\ Len(rows') = Len(rows)
                  /\ \E n \in DOMAIN rows' :
                         /\ rows'[n] = CsvRow(message_data')
                         /\ \A j \in 1..(n - 1) :
                                rows[j].message_id # rows'[n].message_id
      ]_vars
C24_Witness ==
    /\ pc = "persisted"
    /\ result.kind = "raise"
    /\ message_data.openai_error = result.exc
    /\ Len(rows) = 2
    /\ rows[2] = CsvRow(message_data)
    /\ rows[1].message_id # rows[2].message_id


\* C25: the analyzer returns None, without raising and without a retry,
\* when the status is neither 200 nor the rate-limit status, and when the
\* content of a status-200 response is parsed neither from its first
\* opening to its last closing brace nor by the brace-balanced line scan;
\* no response content makes the call raise.
Unparseable(raw) ==
    LET c == object_span(unfence(strip(raw)))
    IN /\ strip(raw) # NULL_TEXT
       /\ json_loads(c).kind = "raise"
       /\ \/ manual_content(c) = <<>>
          \/ json_loads(manual_content(c)).kind = "raise"
C25_DegradesToNone ==
    (pc = "classified" /\ cur_last.net = "ok")
        => /\ cur_last.status \notin {HTTP_OK, HTTP_RATE_LIMIT}
                  => result = Return(None)
           /\ (cur_last.status = HTTP_OK /\ Unparseable(cur_last.content))
                  => result = Return(None)
           /\ cur_last.status # HTTP_RATE_LIMIT
                  => /\ result.kind = "return"
                     /\ ~on_exception(result, cur_tries, cur_last.late)
C25_Witness ==
    /\ pc = "classified"
    /\ cur_last.status = HTTP_OK
    /\ cur_last.content = <<"{", "p", "}">>
    /\ result = Return(None)
    /\ message_data.openai_error = NULL_MESSAGE


\* C26: a store update for a message_id that is present changes only the
\* enrichment fields of the row with that message_id: the number of rows,
\* their order, every message_id, every message_text and every other row
\* are the same after the update as before.
C26_UpdateHitFrame ==
    [][\A k \in 1..MaxLines, res \in Outcomes :
           Persist(k, res)
               => /\ Len(rows') = Len(rows)
                  /\ \A n \in RowIndex :
                         /\ rows'[n].message_id = rows[n].message_id
                         /\ rows'[n].message_text = rows[n].message_text
                         /\ rows[n].message_id # str(message_data'.message_id)
                                => rows'[n] = rows[n]
      ]_vars


\* C27: under any interleaving of the scheduler tasks the read-patch-rewrite
\* of one store update never overlaps a store access of another task, so no
\* update is lost: when the scheduler has finished, the store holds for
\* every worklist entry the row with the outcome of that entry's own
\* analyzer call.
C27_NoLostUpdate ==
    /\ Cardinality({i \in Tasks : tpc[i] = "write"}) <= 1
    /\ summary.reported =>
           \A i \in Tasks :
               \E n \in RowIndex : rows[n] = CsvRow(unprocessed_messages[i])

C27_Witness ==
    /\ pc = "gather"
    /\ Len(unprocessed_messages) = 3
    /\ tpc[1] = "call"
    /\ tpc[2] = "done"
    /\ tpc[3] = "sleep"
    /\ unprocessed_messages[2].openai_processed
    /\ \E n \in RowIndex : rows[n] = CsvRow(unprocessed_messages[2])
    /\ \E n \in RowIndex : rows[n] = CsvRow(unprocessed_messages[1])


\* C28: in the scheduler every analyzer call is preceded by the entry's own
\* wait of the inter-call delay, which starts when the gate admits the
\* entry and is spent holding the slot; the waits of different entries are
\* not serialized: the wait of an entry ends, and a free slot is taken,
\* whatever the other entries are doing, so up to concurrency_limit entries
\* wait or call at once.
Sleeping == {i \in Tasks : tpc[i] = "sleep"}
C28_DelayPerCall ==
    /\ [][\A i \in DOMAIN tpc \cap DOMAIN tpc' :
             /\ (tpc[i] # "call" /\ tpc'[i] = "call") => tpc[i] = "sleep"
             /\ (tpc[i] # "sleep" /\ tpc'[i] = "sleep")
                    => tpc[i] = "wait" /\ semaphore' = semaphore - 1
             /\ (tpc[i] = "sleep" /\ tpc'[i] # "sleep")
                    => tpc'[i] = "call" /\ semaphore' = semaphore]_vars
    /\ [](semaphore = MAX_CONCURRENT_REQUESTS - Cardinality(Admitted))
    /\ [](pc = "gather" /\ ~Writing =>
             /\ \A i \in Sleeping : ENABLED Wake(i)
             /\ (semaphore > 0 /\ \E i \in Tasks : tpc[i] = "wait")
                    => \E i \in Tasks : ENABLED Acquire(i))
C28_Witness ==
    /\ pc = "gather"
    /\ Cardinality(Sleeping) = MAX_CONCURRENT_REQUESTS
    /\ Cardinality(Sleeping) > 1
    /\ \E i \in Tasks : tpc[i] = "wait"


\* C29: when connect_and_auth raises or get_channel_entity returns None the
\* run ends as a failure without a feed pass: up to that step the run has
\* read no feed message, made no analyzer call and built no worklist; the
\* step leaves the store file as it was (not created, not changed) and goes
\* straight to the finally clause; from there the only step of the run is
\* client.disconnect(), which also leaves the store alone.
NothingStarted ==
    /\ processed_message_ids = {}
    /\ fed = 0
    /\ message_data = NoMessage
    /\ cur_tries = 0
    /\ unprocessed_messages = <<>>
    /\ tries = <<>>
    /\ summary = NoSummary
C29_FailedStartDoesNothing ==
    /\ [](pc \in {"connect", "resolve"} => NothingStarted)
    /\ [][((\E ok \in {FALSE} : Connect(ok))
            \/ (\E found \in {FALSE} : Resolve(found)))
           => /\ pc' = "disconnect"
              /\ outcome' \in {"failed", "no_channel"}
              /\ disk' = disk
              /\ NothingStarted'
              /\ releases' = 0]_vars
    /\ [](pc = "disconnect" => ENABLED Disconnect)
    /\ [][pc = "disconnect" /\ outcome' # "killed"
           => /\ pc' = "idle"
              /\ releases' = releases + 1
              /\ outcome' = outcome
              /\ disk' = disk
              /\ NothingStarted']_vars
C29_Witness ==
    /\ pc = "idle"
    /\ outcome = "no_channel"
    /\ releases = 1
    /\ exists /\ header /\ Len(rows) = 2
    /\ NothingStarted


\* C30: in one scheduler pass every worklist entry has one task, which
\* only moves forward through wait, sleep, call, write, done: it invokes
\* the analyzer once (on leaving sleep), enters _update_message_in_csv once
\* (on leaving call, whether the analyzer returned an object or None) and
\* leaves it once; the worklist itself neither grows nor shrinks, and when
\* the summary is logged every entry has had its one call and one update.
Stage(p) ==
    CASE p = "wait" -> 0 [] p = "sleep" -> 1 [] p = "call" -> 2
      [] p = "write" -> 3 [] p = "done" -> 4
Updating == {i \in Tasks : tpc[i] \in {"write", "done"}}
C30_ConsumedOnce ==
    /\ [][pc = "gather" /\ pc' = "gather" =>
             /\ DOMAIN unprocessed_messages' = DOMAIN unprocessed_messages
             /\ \A i \in Tasks :
                   /\ Stage(tpc'[i]) \in {Stage(tpc[i]), Stage(tpc[i]) + 1}
                   /\ tries'[i] = IF tpc[i] = "sleep" /\ tpc'[i] = "call"
                                  THEN tries[i] + 1 ELSE tries[i]
                   /\ unprocessed_messages'[i] # unprocessed_messages[i]
                          => tpc[i] = "call" /\ tpc'[i] = "write"
                   /\ (tpc[i] = "call" /\ tpc'[i] = "write")
                          => pending'.rows =
                                 rewritten(header, rows,
                                           unprocessed_messages'[i])]_vars
    /\ [](\A i \in Tasks :
             tries[i] = IF tpc[i] \in {"wait", "sleep"} THEN 0 ELSE 1)
    /\ [](pc = "gather" =>
             processed_count + failed_count = Cardinality(Updating))
    /\ [](summary.reported =>
             /\ unprocessed_messages # <<>>
             /\ \A i \in Tasks : tpc[i] = "done" /\ tries[i] = 1
             /\ summary.succeeded + summary.failed
                    = Len(unprocessed_messages))
C30_Witness ==
    /\ summary.reported
    /\ Len(unprocessed_messages) = MaxRows
    /\ \A i \in Tasks : tpc[i] = "done" /\ tries[i] = 1
    /\ summary.succeeded > 0
    /\ summary.failed > 0


\* C31: every task that gets its analyzer result adds one to exactly one of
\* processed_count and failed_count, and nothing else changes them; so the
\* summary of a pass that gather has completed has succeeded + failed equal
\* to the length of the worklist, succeeded equal to the number of entries
\* whose row in the file now reads openai_processed True, and failed equal
\* to the number of entries whose row carries an error.
StoredAs(i, flag) ==
    \E n \in RowIndex :
        /\ rows[n].message_id = str(unprocessed_messages[i].message_id)
        /\ rows[n].openai_processed = flag
C31_SummaryCounts ==
    /\ [][pc = "gather" /\ pc' = "gather" =>
             \/ \E i \in Tasks :
                   /\ tpc[i] = "call" /\ tpc'[i] = "write"
                   /\ IF unprocessed_messages'[i].openai_processed
                      THEN /\ processed_count' = processed_count + 1
                           /\ failed_count' = failed_count
                      ELSE /\ processed_count' = processed_count
                           /\ failed_count' = failed_count + 1
             \/ /\ \A i \in Tasks : ~(tpc[i] = "call" /\ tpc'[i] = "write")
                /\ processed_count' = processed_count
                /\ failed_count' = failed_count]_vars
    /\ [](summary.reported =>
             /\ summary.succeeded + summary.failed
                    = Len(unprocessed_messages)
             /\ summary.succeeded
                    = Cardinality({i \in Tasks : StoredAs(i, "True")})
             /\ summary.failed
                    = Cardinality({i \in Tasks :
                          StoredAs(i, "False")
                          /\ unprocessed_messages[i].openai_error # None})
             /\ \A i \in Tasks : ~(StoredAs(i, "True")
                                     /\ StoredAs(i, "False")))
C31_Witness ==
    /\ summary.reported
    /\ summary.succeeded = 2
    /\ summary.failed = 1
    /\ Cardinality({i \in Tasks : StoredAs(i, "True")}) = 2


\* C32: _initialize_csv on a missing file leaves a file holding the header
\* line and no data line; on an existing file, whatever it holds (rows, no
\* rows, no header line), it leaves the file as it is; a second call after
\* the first changes nothing.
C32_InitializeOnce ==
    /\ [][pc = "ops" /\ ~exists
           => exists' /\ header' /\ rows' = <<>>]_vars
    /\ [][pc = "ops" /\ exists
           => exists' /\ header' = header /\ rows' = rows]_vars
    /\ [][pc = "initialized" => disk' = disk]_vars
    /\ [](pc # "ops" => exists /\ pending = NoPending)
C32_Witness ==
    /\ pc = "initialized twice"
    /\ header
    /\ Len(rows) = MaxLines
    /\ \E n \in RowIndex : CollectedOnly(rows[n])


\* C33: the text handed to process_message is never empty: the message in
\* hand of the incremental pass has passed the text filter, and every entry
\* of a phase 2 worklist, read back from the file by this or by a fresh
\* process, carries the non-empty text its row was appended with.
C33_CallsCarryText ==
    /\ (pc = "analyze" => message_data.message_text # <<>>)
    /\ \A i \in Tasks : unprocessed_messages[i].message_text # <<>>
C33_Witness ==
    /\ pc = "gather"
    /\ fed = 0
    /\ \E i \in Tasks :
           /\ tpc[i] = "call"
           /\ unprocessed_messages[i].message_text # <<>>


\* C34: from the moment a run loads the store until its feed pass is over
\* (both modes; phase 2 not yet begun), every step, an interrupt or a kill
\* included, leaves every row the file already holds where and as it is:
\* the file only grows, by at most one row at its end per step, and the
\* header line is only ever added by creating a missing file.
FeedPass == pc \in {"resolve", "feed", "analyze", "pace"}
C34_FeedPassOnlyAppends ==
    [][FeedPass =>
         /\ Len(rows') \in {Len(rows), Len(rows) + 1}
         /\ \A n \in DOMAIN rows : rows'[n] = rows[n]
         /\ exists => (exists' /\ header' = header)
         /\ pending' = pending]_vars
C34_Witness ==
    /\ pc = "pace"
    /\ incremental
    /\ Len(rows) = 3
    /\ CollectedOnly(rows[1])
    /\ TerminallyFailed(rows[2])
    /\ rows[3] = CsvRow(message_data)
    /\ TerminallyEnriched(rows[3])


\* C35: a setting given both in config.json and in the environment has,
\* after the import of config.py, the value of config.json (checked on the
\* mode handed to run_scraper and on every attribute with an environment
\* variable).
C35_FileOverEnv ==
    [][\A config_data \in ConfigFiles, environ \in Environs :
          Configure(config_data, environ) =>
              /\ (config_data.USE_INCREMENTAL # {}
                     /\ environ.USE_INCREMENTAL # {})
                    => incremental' \in config_data.USE_INCREMENTAL
              /\ \A env_var \in DOMAIN env_mappings :
                    (config_data[env_mappings[env_var]] # {}
                       /\ environ[env_var] # {})
                      => result'.value[env_mappings[env_var]]
                            \in config_data[env_mappings[env_var]]]_vars


\* C36: once the file holds a row with openai_processed True, no later
\* step of any run, in either mode and whatever is interrupted, changes or
\* removes that row, and the message of that row is never again in the
\* hands of the analyzer: it is in no worklist entry still to be called
\* and is not the message in hand of an incremental pass.  (A row counts
\* from the end of the rewrite that stores it.)
BeingWritten(r) ==
    \E i \in Tasks :
        /\ tpc[i] = "write"
        /\ str(unprocessed_messages[i].message_id) = r.message_id
StoredEnriched ==
    {n \in DOMAIN Persisted :
        Persisted[n].openai_processed = "True" /\ ~BeingWritten(Persisted[n])}
Enriched(id) ==
    \E n \in StoredEnriched : Persisted[n].message_id = str(id)
C36_EnrichedIsFinal ==
    /\ [](\A i \in Tasks :
             tpc[i] \in {"wait", "sleep", "call"}
                => ~Enriched(unprocessed_messages[i].message_id))
    /\ [](pc = "analyze" => ~Enriched(message_data.message_id))
    /\ [][\A n \in StoredEnriched :
             n \in DOMAIN Persisted' /\ Persisted'[n] = Persisted[n]]_vars


\* C37: during a feed pass every id of processed_message_ids has a row in
\* the file, also after an append that raised inside _append_to_csv: an id
\* enters the set only together with its row.
HasRow(id) == \E n \in RowIndex : rows[n].message_id = str(id)
C37_KnownIsStored ==
    pc \in {"feed", "analyze", "pace"}
        => \A id \in processed_message_ids : HasRow(id)


\* C38: when run_scraper has ended (its finally clause has run) and main
\* logs that scraping completed successfully, the run was a completed one:
\* not an interrupted run, not a run that failed with an error and not a
\* run whose channel could not be resolved.
RunEnded == pc = "idle" /\ releases = 1
C38_SuccessOnlyIfCompleted ==
    (RunEnded /\ LOG_COMPLETED \in main(exc)) => outcome = "completed"


\* C39: in two-phase mode no analyzer call has been made while the run is
\* in phase 1; an interrupt or a feed error in phase 1 takes the run
\* straight to the finally clause, with no worklist built, no task started
\* and the file as the appends left it; and outside phase 2 no step of any
\* run changes a collected-only row, so the rows phase 1 appended wait as
\* they are for the phase 2 of a later run.
Phase1 == ~incremental /\ pc = "feed"
C39_Phase1StopSkipsPhase2 ==
    /\ [](Phase1 => /\ unprocessed_messages = <<>>
                    /\ tries = <<>>
                    /\ cur_tries = 0
                    /\ message_data = NoMessage
                    /\ ~summary.reported)
    /\ [][(Phase1 /\ (Interrupt \/ FeedError)) =>
             /\ pc' = "disconnect"
             /\ outcome' \in {"interrupted", "failed"}
             /\ disk' = disk
             /\ unprocessed_messages' = <<>>
             /\ tries' = <<>>
             /\ cur_tries' = 0]_vars
    /\ [][(pc # "gather" /\ pc' # "gather") =>
             \A n \in DOMAIN rows :
                 CollectedOnly(rows[n])
                    => n \in DOMAIN rows' /\ rows'[n] = rows[n]]_vars
C39_Witness ==
    /\ ~incremental
    /\ pc = "disconnect"
    /\ outcome = "interrupted"
    /\ Len(rows) = 2
    /\ \A n \in RowIndex : CollectedOnly(rows[n])
    /\ unprocessed_messages = <<>>

====
